---------------------------- MODULE Spec2Model ----------------------------
(***************************************************************************)
(* A model of mapbox::util::pbf (src/pbf.hpp), a forward-only cursor over  *)
(* a Protocol Buffers byte range.                                          *)
(*                                                                         *)
(* Integers of the program (uint32_t, uint64_t, int32_t, int64_t) are bit  *)
(* vectors, written as the set of the positions of their 1 bits (bit 0 is  *)
(* the least significant).  Pointers are byte offsets from the first byte  *)
(* of the buffer.                                                          *)
(*                                                                         *)
(* The build is part of the state: whether assert() is compiled in         *)
(* (NDEBUG), and the width of a pointer.  On the ILP32 build the buffer    *)
(* starts at address 0x80000000, so that an offset is a two's complement   *)
(* 32-bit integer, pointer addition wraps as 32-bit addition does, and the *)
(* unsigned comparison of two addresses is the comparison of the offsets.  *)
(* On the LP64 build no sum of a pointer and a uint32_t wraps.             *)
(***************************************************************************)
EXTENDS Integers, Sequences, FiniteSets, TLC

VARIABLES
    buf,     \* the immutable byte range handed to the root cursor
    build,   \* [ndebug, ptr]: the build configuration, fixed for a run
    cur,     \* the cursors: cur[1] the root, cur[2] a nested one
    last,    \* the call that has just returned: operation, cursor before,
             \* outcome; NoCall once the caller has taken the result
    status   \* the caller: "ready" to call, "returned" from a call, or
             \* "aborted" by a failed assert()

vars == <<buf, build, cur, last, status>>

---------------------------------------------------------------------------
(* Bit vectors *)

PowersOfTwo == [i \in 0..30 |-> 2^i]

Pow2(n) == PowersOfTwo[n]

\* the bits of a byte (a char holding 0..255)
ByteBits(b) == {i \in 0..7 : (b \div Pow2(i)) % 2 = 1}

\* the bit vector of a natural number below 2^31
NatBits(n) == {i \in 0..30 : (n \div Pow2(i)) % 2 = 1}

RECURSIVE SumBits(_)
SumBits(s) == IF s = {} THEN 0
              ELSE LET i == CHOOSE x \in s : TRUE
                   IN  Pow2(i) + SumBits(s \ {i})

\* the natural number of a bit vector whose bits all lie below bit 31
BitsNat(s) == SumBits(s)

Width(T) == IF T \in {"uint32_t", "int32_t"} THEN 32 ELSE 64

IsSigned(T) == T \in {"int32_t", "int64_t"}

Xor(a, b) == (a \ b) \cup (b \ a)

MinInt32 == -2147483647 - 1

MaxInt32 == -(MinInt32 + 1)

\* a uint32_t read as a two's complement 32-bit integer
Signed32(bits) ==
    IF 31 \in bits THEN MinInt32 + BitsNat(bits \ {31}) ELSE BitsNat(bits)

\* the sum of two two's complement 32-bit integers, modulo 2^32
Add32(a, b) ==
    IF a >= 0 /\ b >= 0 /\ b > MaxInt32 - a
    THEN (a + MinInt32) + (b + MinInt32)
    ELSE IF a < 0 /\ b < 0 /\ b < MinInt32 - a
    THEN (a - MinInt32) + (b - MinInt32)
    ELSE a + b

---------------------------------------------------------------------------
(* The cursor (struct pbf) and the outcome of a call *)

CursorIds == {1, 2}

\* struct pbf: data, end, value (the last key), tag; live: the object exists
Cursor(d, e) == [live |-> TRUE, data |-> d, end |-> e, value |-> {}, tag |-> {}]

NoCursor == [live |-> FALSE, data |-> 0, end |-> 0, value |-> {}, tag |-> {}]

\* pbf::wire_type
wire_type(cu) == BitsNat(cu.value \cap 0..2)

\* pbf::is_wire_type
is_wire_type(cu, type) == wire_type(cu) = type

\* the conversion taking data = end for more to read
operator_bool_le(cu) == cu.data <= cu.end

\* pbf::operator bool
operator_bool(cu) == cu.data < cu.end

\* assert(cond): compiled out under NDEBUG
assert_holds(cond) == build.ndebug \/ cond

\* *p: a byte of the buffer, or, outside it, whatever the memory holds
Mem(p, wild) == IF p >= 0 /\ p < Len(buf) THEN buf[p + 1] ELSE wild

\* a call that returned normally, leaving the cursor as cu
Ok(cu) == [c |-> cu, err |-> "ok", rbool |-> FALSE, rbits |-> {},
           rbytes |-> <<>>, rcur |-> NoCursor, reads |-> {}, iters |-> 0]

\* a call that threw e (or aborted), leaving the cursor as cu
Throw(cu, e, rd) == [Ok(cu) EXCEPT !.err = e, !.reads = rd]

---------------------------------------------------------------------------
(* pbf::varint<T> *)

\* x << bitpos without the cast to T: the shift is done in a 32-bit int
ShiftLeftInt(T, shift, x, bitpos) ==
    LET n == IF bitpos < 32 THEN bitpos
             ELSE IF shift = "mask" THEN bitpos % 32
             ELSE 32
    IN  {i + n : i \in x} \cap (0..31)

\* (T)x << bitpos.  A shift by the width of T or more is undefined: the
\* hardware either masks the count (x86) or shifts everything out (ARM).
ShiftLeft(T, shift, x, bitpos) ==
    LET w == Width(T)
        n == IF bitpos < w THEN bitpos
             ELSE IF shift = "mask" THEN bitpos % w
             ELSE w
    IN  {i + n : i \in x} \cap (0..(w - 1))

\* byte & 0x80
continues(byte) == 7 \in ByteBits(byte)

\* the condition of the for loop: bitpos < 70 && (byte & 0x80)
varint_more(st) == st.bitpos < 70 /\ continues(st.byte)

\* data > end: the bounds check off by one
at_end_off_by_one(cu) == cu.data > cu.end

\* data >= end
at_end(cu) == cu.data >= cu.end

\* bitpos == 70 alone: a tenth byte is refused whatever it is
varint_too_long_any(st) == st.bitpos = 70

\* bitpos == 70 && (byte & 0x80)
varint_too_long(st) == st.bitpos = 70 /\ continues(st.byte)

\* the for loop of varint; st = [c, bitpos, byte, result, reads, iters]
RECURSIVE varint_loop(_, _, _)
varint_loop(T, env, st) ==
    IF varint_more(st)
    THEN IF at_end(st.c)
         THEN [Throw(st.c, "UnterminatedVarint", st.reads)
                  EXCEPT !.iters = st.iters]
         ELSE LET b == Mem(st.c.data, env.wild)
              IN  varint_loop(T, env,
                    [c      |-> [st.c EXCEPT !.data = @ + 1],
                     bitpos |-> st.bitpos + 7,
                     byte   |-> b,
                     result |-> st.result \cup
                                ShiftLeft(T, env.shift,
                                          ByteBits(b) \cap 0..6, st.bitpos),
                     reads  |-> st.reads \cup {st.c.data},
                     iters  |-> st.iters + 1])
    ELSE IF varint_too_long(st)
    THEN [Throw(st.c, "VarintTooLong", st.reads) EXCEPT !.iters = st.iters]
    ELSE [Ok(st.c) EXCEPT !.rbits = st.result, !.reads = st.reads,
                          !.iters = st.iters]

varint(cu, T, env) ==
    IF ~assert_holds(is_wire_type(cu, 0) \/ is_wire_type(cu, 2))
    THEN Throw(cu, "AssertionFailed", {})
    ELSE varint_loop(T, env, [c |-> cu, bitpos |-> 0, byte |-> 128,
                              result |-> {}, reads |-> {}, iters |-> 0])

\* n >> 1: arithmetic on a signed T, logical on an unsigned T
ShiftRight1(T, n) ==
    {i - 1 : i \in n \ {0}} \cup
    (IF IsSigned(T) /\ (Width(T) - 1) \in n THEN {Width(T) - 1} ELSE {})

\* -(T)(n & 1)
NegLowBit(T, n) == IF 0 \in n THEN 0..(Width(T) - 1) ELSE {}

\* pbf::svarint<T>
svarint(cu, T, env) ==
    LET r == varint(cu, T, env)
    IN  IF r.err # "ok" THEN r
        ELSE [r EXCEPT !.rbits = Xor(ShiftRight1(T, r.rbits),
                                     NegLowBit(T, r.rbits))]

---------------------------------------------------------------------------
(* pbf::skipBytes and the operations built on it *)

\* data + bytes > end
PastEnd(p, bytes, e) ==
    IF build.ptr = "ILP32"
    THEN Add32(p, Signed32(bytes)) > e
    ELSE 31 \in bytes \/ BitsNat(bytes) > e - p

\* p + bytes, for a sum PastEnd has let through
PtrAdd(p, bytes) ==
    IF build.ptr = "ILP32"
    THEN Add32(p, Signed32(bytes))
    ELSE p + BitsNat(bytes)

skipBytes(cu, bytes) ==
    IF PastEnd(cu.data, bytes, cu.end)
    THEN Throw(cu, "EndOfBuffer", {})
    ELSE Ok([cu EXCEPT !.data = PtrAdd(cu.data, bytes)])

\* the bytes at [p, p + n)
Bytes(p, n, wild) == [i \in 1..n |-> Mem(p + i - 1, wild)]

\* pbf::fixed<T, bytes>
fixed(cu, bytes, env) ==
    IF ~assert_holds((is_wire_type(cu, 5) /\ bytes = 4) \/
                     (is_wire_type(cu, 1) /\ bytes = 8))
    THEN Throw(cu, "AssertionFailed", {})
    ELSE LET r == skipBytes(cu, NatBits(bytes))
         IN  IF r.err # "ok" THEN r
             ELSE [r EXCEPT
                     !.rbytes = Bytes(r.c.data - bytes, bytes, env.wild),
                     !.reads = (r.c.data - bytes)..(r.c.data - 1)]

\* pbf::float32
float32(cu, env) ==
    IF ~assert_holds(is_wire_type(cu, 5))
    THEN Throw(cu, "AssertionFailed", {})
    ELSE fixed(cu, 4, env)

\* pbf::float64
float64(cu, env) ==
    IF ~assert_holds(is_wire_type(cu, 1))
    THEN Throw(cu, "AssertionFailed", {})
    ELSE fixed(cu, 8, env)

\* the length varint, then skipBytes(length): the common part of string,
\* message and skipValue's case 2.  An exception of skipBytes leaves data
\* after the length varint.
skip_length(cu, env) ==
    LET v == varint(cu, "uint32_t", env)
    IN  IF v.err # "ok" THEN v
        ELSE LET s == skipBytes(v.c, v.rbits)
             IN  [s EXCEPT !.rbits = v.rbits, !.reads = v.reads,
                           !.iters = v.iters]

\* did pos + bytes reach d without wrapping?
Unwrapped(pos, bytes, d) == ~(31 \in bytes) /\ BitsNat(bytes) = d - pos

\* pbf::string.  std::string(pos, bytes) copies [pos, pos + bytes); with a
\* length that wrapped the pointer it throws (length_error, bad_alloc).
string(cu, env) ==
    IF ~assert_holds(is_wire_type(cu, 2))
    THEN Throw(cu, "AssertionFailed", {})
    ELSE LET v == varint(cu, "uint32_t", env)
             pos == v.c.data
             r == skip_length(cu, env)
         IN  IF r.err # "ok" THEN r
             ELSE IF ~Unwrapped(pos, r.rbits, r.c.data)
             THEN [r EXCEPT !.err = "StdException"]
             ELSE [r EXCEPT
                     !.rbytes = Bytes(pos, BitsNat(r.rbits), env.wild),
                     !.reads = @ \cup (pos..(r.c.data - 1))]

\* pbf::boolean.  The second assert reads *data before any bounds check.
boolean(cu, env) ==
    IF ~assert_holds(is_wire_type(cu, 0))
    THEN Throw(cu, "AssertionFailed", {})
    ELSE LET asserted == IF build.ndebug THEN {} ELSE {cu.data}
             r == skipBytes(cu, NatBits(1))
         IN  IF ~assert_holds(~(7 \in ByteBits(Mem(cu.data, env.wild))))
             THEN Throw(cu, "AssertionFailed", asserted)
             ELSE IF r.err # "ok" THEN [r EXCEPT !.reads = asserted]
             ELSE [r EXCEPT !.rbool = Mem(r.c.data - 1, env.wild) # 0,
                            !.reads = asserted \cup {r.c.data - 1}]

\* the constructor taking length for the end itself
pbf_end_is_length(data_, length) == Cursor(data_, BitsNat(length))

\* pbf::pbf(const char *data, size_t length)
pbf(data_, length) == Cursor(data_, PtrAdd(data_, length))

\* pbf::message
message(cu, env) ==
    IF ~assert_holds(is_wire_type(cu, 2))
    THEN Throw(cu, "AssertionFailed", {})
    ELSE LET v == varint(cu, "uint32_t", env)
             pos == v.c.data
             r == skip_length(cu, env)
         IN  IF r.err # "ok" THEN r
             ELSE [r EXCEPT !.rcur = pbf(pos, r.rbits), !.rbits = {}]

\* skipValue with the widths of the two fixed types exchanged
skipValue_swapped(cu, val, env) ==
    LET t == BitsNat(val \cap 0..2)
    IN  IF t = 0 THEN [varint(cu, "uint32_t", env) EXCEPT !.rbits = {}]
        ELSE IF t = 1 THEN skipBytes(cu, NatBits(4))
        ELSE IF t = 2 THEN [skip_length(cu, env) EXCEPT !.rbits = {}]
        ELSE IF t = 5 THEN skipBytes(cu, NatBits(8))
        ELSE Throw(cu, "UnknownFieldType", {})

\* skipValue taking an unknown wire type for a varint
skipValue_lenient(cu, val, env) ==
    LET t == BitsNat(val \cap 0..2)
    IN  IF t = 1 THEN skipBytes(cu, NatBits(8))
        ELSE IF t = 2 THEN [skip_length(cu, env) EXCEPT !.rbits = {}]
        ELSE IF t = 5 THEN skipBytes(cu, NatBits(4))
        ELSE [varint(cu, "uint32_t", env) EXCEPT !.rbits = {}]

\* pbf::skipValue
skipValue(cu, val, env) ==
    LET t == BitsNat(val \cap 0..2)
    IN  IF t = 0 THEN [varint(cu, "uint32_t", env) EXCEPT !.rbits = {}]
        ELSE IF t = 1 THEN skipBytes(cu, NatBits(8))
        ELSE IF t = 2 THEN [skip_length(cu, env) EXCEPT !.rbits = {}]
        ELSE IF t = 5 THEN skipBytes(cu, NatBits(4))
        ELSE Throw(cu, "UnknownFieldType", {})

\* pbf::skip
skip(cu, env) == skipValue(cu, cu.value, env)

---------------------------------------------------------------------------
(* pbf::next *)

\* value >> 3
ShiftRight3(v) == {i - 3 : i \in v \ (0..2)}

\* pbf::next()
next(cu, env) ==
    IF cu.data < cu.end
    THEN LET r == varint(cu, "uint32_t", env)
         IN  IF r.err # "ok" THEN r
             ELSE [r EXCEPT !.c.value = r.rbits,
                            !.c.tag = ShiftRight3(r.rbits),
                            !.rbool = TRUE, !.rbits = {}]
    ELSE Ok(cu)

\* the while loop of next(requested_tag).  The loop is deterministic in
\* the cursor, so meeting a cursor again at its head means that it never
\* ends ("Diverges").
RECURSIVE next_tag_loop(_, _, _, _, _, _)
next_tag_loop(cu, requested_tag, env, reads, iters, seen) ==
    IF cu \in seen
    THEN [Throw(cu, "Diverges", reads) EXCEPT !.iters = iters]
    ELSE LET n == next(cu, env)
             rd == reads \cup n.reads
         IN  IF n.err # "ok" \/ ~n.rbool
             THEN [n EXCEPT !.reads = rd, !.iters = iters]
             ELSE IF n.c.tag = requested_tag
             THEN [n EXCEPT !.reads = rd, !.iters = iters + 1]
             ELSE LET s == skip(n.c, env)
                  IN  IF s.err # "ok"
                      THEN [s EXCEPT !.reads = rd \cup s.reads,
                                     !.iters = iters + 1]
                      ELSE next_tag_loop(s.c, requested_tag, env,
                                         rd \cup s.reads, iters + 1,
                                         seen \cup {cu})

\* pbf::next(uint32_t requested_tag)
next_tag(cu, requested_tag, env) ==
    next_tag_loop(cu, requested_tag, env, {}, 0, {})

---------------------------------------------------------------------------
(* The inputs *)

MaxFields == 1

MaxGroups == 10

RECURSIVE Rep(_, _)
Rep(b, n) == IF n = 0 THEN <<>> ELSE <<b>> \o Rep(b, n - 1)

RECURSIVE Concat(_)
Concat(ss) == IF ss = <<>> THEN <<>> ELSE Head(ss) \o Concat(Tail(ss))

\* well-formed fields: key, value
Fields ==
    { <<8, 150, 1>>,                        \* tag 1, varint 150
      <<45, 1, 2, 3, 4>>,                   \* tag 5, 32 bit
      <<57, 1, 2, 3, 4, 5, 6, 7, 8>>,       \* tag 7, 64 bit
      <<42, 2, 8, 1>> }                     \* tag 5, message {tag 1: 1}

\* what may follow them: nothing, another field, or a malformed field
Tails ==
    { <<>>,
      <<56, 0>>,                            \* tag 7, varint 0
      <<11, 1>>,                            \* tag 1, wire type 3
      <<10, 5, 1>>,                         \* tag 1, length 5, 1 byte left
      <<45, 1, 2>>,                         \* tag 5, 32 bit, 2 bytes left
      <<128>>,                              \* a key that does not end
      <<10, 255, 255, 255, 255, 15, 1>>,    \* tag 1, length 2^32 - 1
      <<10, 250, 255, 255, 255, 15>>,       \* tag 1, length 2^32 - 6
      <<10, 129, 128, 128, 128, 16, 1>> }   \* tag 1, length 2^32 + 1

FieldBuffers ==
    { Concat(fs) \o t :
        fs \in UNION {[1..n -> Fields] : n \in 0..MaxFields}, t \in Tails }

\* buffers of fixed-width fields, whole or cut short
SkipBuffers ==
    { <<>>,
      <<45, 1, 2, 3, 4>>,
      <<45, 1, 2>>,
      <<57, 1, 2, 3, 4, 5, 6, 7, 8>>,
      <<57, 1, 2, 3, 4, 5, 6, 7>>,
      <<45, 1, 2, 3, 4, 57, 1, 2, 3, 4, 5, 6, 7, 8>>,
      <<57, 1, 2, 3, 4, 5, 6, 7, 8, 45, 1, 2, 3>> }

\* buffers with a length-delimited field to open as a message
NestedBuffers ==
    { <<42, 2, 8, 1>>,                      \* tag 5 {tag 1: 1}
      <<42, 2, 8, 1, 56, 0>>,               \* the same, then tag 7: 0
      <<10, 4, 8, 1, 21, 0, 24, 1>>,        \* tag 1 {tag 1: 1, a cut field}, tag 3: 1
      <<10, 0>>,                            \* tag 1 {}
      <<10, 3, 45, 1, 2>>,                  \* tag 1 {tag 5, 32 bit, cut short}
      <<8, 1, 10, 2, 16, 1>>,               \* tag 1: 1, tag 1 {tag 2: 1}
      <<10, 5, 1>> }                        \* tag 1, length 5, 1 byte left

ContinuationBytes == {128, 254, 255}

VarintTails == { <<>>, <<0>>, <<1>>, <<15>>, <<127>>, <<1, 255>> }

\* varints of up to MaxGroups + 1 bytes, ended or not
VarintBuffers ==
    { <<8, 150, 1>> } \cup
    { Rep(x[1], x[3]) \o Rep(x[2], x[4]) \o x[5] : x \in
      { y \in ContinuationBytes \X ContinuationBytes \X (0..MaxGroups) \X
               (0..MaxGroups) \X VarintTails : y[3] + y[4] <= MaxGroups } }

Builds == [ndebug : BOOLEAN, ptr : {"ILP32", "LP64"}]

\* Five continuation bytes in a row: only then does a varint reach a sixth
\* group, whose shift is over-wide for a 32-bit T.
HasLongVarint ==
    \E p \in 1..(Len(buf) - 4) : \A i \in 0..4 : buf[p + i] >= 128

\* The outcomes of the undefined parts of a call on cursor cu: an over-wide
\* shift, and the byte found by a read outside the buffer.  A call reads
\* inside [data, end), or at data alone: where neither can leave the
\* buffer, or no shift can be over-wide, one outcome stands for all.
Envs(cu) ==
    [shift : IF HasLongVarint THEN {"mask", "zero"} ELSE {"mask"},
     wild  : IF cu.data >= 0 /\ cu.data < Len(buf) /\ cu.end <= Len(buf)
             THEN {0} ELSE {0, 255}]

UnsignedTypes == {"uint32_t", "uint64_t"}

SignedTypes == {"int32_t", "int64_t"}

RequestedTags == {NatBits(1), NatBits(5), NatBits(7)}

SkipValues == {NatBits(v) : v \in {0, 1, 2, 3, 5}}

SkipCounts == {NatBits(1), NatBits(4)}

\* counts for skipBytes up to 2^32 - 1: 0, 1, 4, 8, 2^32 - 4, 2^32 - 1
WideSkipCounts ==
    {NatBits(0), NatBits(1), NatBits(4), NatBits(8), 2..31, 0..31}

---------------------------------------------------------------------------
(* The state machine *)

NoCall == [op |-> "none", cid |-> 1, ty |-> "", arg |-> {},
           pre |-> NoCursor, out |-> Ok(NoCursor)]

InitWith(buffers, builds) ==
    /\ buf \in buffers
    /\ build \in builds
    /\ cur = [i \in CursorIds |->
                IF i = 1 THEN pbf(0, NatBits(Len(buf))) ELSE NoCursor]
    /\ last = NoCall
    /\ status = "ready"

Init == InitWith(FieldBuffers, Builds)

\* a call of op on cursor c with outcome out; a failed assert aborts the
\* program
Call(c, op, ty, arg, out) ==
    /\ cur' = [cur EXCEPT ![c] = out.c]
    /\ last' = [op |-> op, cid |-> c, ty |-> ty, arg |-> arg,
                pre |-> cur[c], out |-> out]
    /\ status' = IF out.err = "AssertionFailed" THEN "aborted" ELSE "returned"
    /\ UNCHANGED <<buf, build>>

Callable(c) == status = "ready" /\ cur[c].live

\* if (cursor): the conversion to bool
CallOperatorBool ==
    \E c \in CursorIds : Callable(c) /\
        Call(c, "bool", "", {},
             [Ok(cur[c]) EXCEPT !.rbool = operator_bool(cur[c])])

CallNext ==
    \E c \in CursorIds : Callable(c) /\ \E env \in Envs(cur[c]) :
        Call(c, "next", "", {}, next(cur[c], env))

CallNextTag ==
    \E c \in CursorIds : Callable(c) /\
        \E env \in Envs(cur[c]), t \in RequestedTags :
            Call(c, "next_tag", "", t, next_tag(cur[c], t, env))

CallVarint ==
    \E c \in CursorIds : Callable(c) /\
        \E env \in Envs(cur[c]), T \in UnsignedTypes :
            Call(c, "varint", T, {}, varint(cur[c], T, env))

CallSvarint ==
    \E c \in CursorIds : Callable(c) /\
        \E env \in Envs(cur[c]), T \in SignedTypes :
            Call(c, "svarint", T, {}, svarint(cur[c], T, env))

CallFixed ==
    \E c \in CursorIds : Callable(c) /\
        \E env \in Envs(cur[c]), bytes \in {4, 8} :
            Call(c, "fixed", "", NatBits(bytes), fixed(cur[c], bytes, env))

CallFloat32 ==
    \E c \in CursorIds : Callable(c) /\ \E env \in Envs(cur[c]) :
        Call(c, "float32", "", {}, float32(cur[c], env))

CallFloat64 ==
    \E c \in CursorIds : Callable(c) /\ \E env \in Envs(cur[c]) :
        Call(c, "float64", "", {}, float64(cur[c], env))

CallString ==
    \E c \in CursorIds : Callable(c) /\ \E env \in Envs(cur[c]) :
        Call(c, "string", "", {}, string(cur[c], env))

CallBoolean ==
    \E c \in CursorIds : Callable(c) /\ \E env \in Envs(cur[c]) :
        Call(c, "boolean", "", {}, boolean(cur[c], env))

\* message(), the caller dropping the cursor it returns
CallMessage ==
    \E c \in CursorIds : Callable(c) /\ \E env \in Envs(cur[c]) :
        Call(c, "message", "", {}, message(cur[c], env))

\* message() on the root, the caller keeping the cursor it returns
CallMessageKeep ==
    /\ Callable(1)
    /\ ~cur[2].live
    /\ \E env \in Envs(cur[1]) :
        LET out == message(cur[1], env)
        IN  /\ out.err = "ok"
            /\ cur' = [cur EXCEPT ![1] = out.c, ![2] = out.rcur]
            /\ last' = [op |-> "message", cid |-> 1, ty |-> "", arg |-> {},
                        pre |-> cur[1], out |-> out]
            /\ status' = "returned"
            /\ UNCHANGED <<buf, build>>

CallSkip ==
    \E c \in CursorIds : Callable(c) /\ \E env \in Envs(cur[c]) :
        Call(c, "skip", "", {}, skip(cur[c], env))

CallSkipValue ==
    \E c \in CursorIds : Callable(c) /\
        \E env \in Envs(cur[c]), val \in SkipValues :
            Call(c, "skipValue", "", val, skipValue(cur[c], val, env))

CallSkipBytes ==
    \E c \in CursorIds : Callable(c) /\ \E bytes \in SkipCounts :
        Call(c, "skipBytes", "", bytes, skipBytes(cur[c], bytes))

\* skipBytes(bytes) with any uint32_t for bytes; the caller passes a count
\* of 2^31 or more only while data is at or after the first byte of the
\* buffer, which bounds how far below the buffer a cursor can get
CallSkipBytesWide ==
    \E c \in CursorIds : Callable(c) /\ \E bytes \in WideSkipCounts :
        /\ 31 \in bytes => cur[c].data >= 0
        /\ Call(c, "skipBytes", "", bytes, skipBytes(cur[c], bytes))

\* the caller takes the result of the call and goes on
Resume ==
    /\ status = "returned"
    /\ status' = "ready"
    /\ last' = NoCall
    /\ UNCHANGED <<buf, build, cur>>

\* the calls on one cursor
Next ==
    \/ CallOperatorBool
    \/ CallNext
    \/ CallNextTag
    \/ CallVarint
    \/ CallSvarint
    \/ CallFixed
    \/ CallFloat32
    \/ CallFloat64
    \/ CallString
    \/ CallBoolean
    \/ CallMessage
    \/ CallSkip
    \/ CallSkipValue
    \/ CallSkipBytes
    \/ Resume

Spec == Init /\ [][Next]_vars

\* next, varint and svarint alone, over varints of every length; none of
\* them reads the width of a pointer
InitVarint == InitWith(VarintBuffers, {b \in Builds : b.ptr = "LP64"})

NextVarint == CallNext \/ CallVarint \/ CallSvarint \/ Resume

SpecVarint == InitVarint /\ [][NextVarint]_vars

\* skipBytes with counts up to 2^32 - 1 and the fixed-width reads built on
\* it, on every build
NextSkip ==
    \/ CallNext
    \/ CallSkipBytesWide
    \/ CallFixed
    \/ CallFloat32
    \/ CallFloat64
    \/ Resume

\* a parent cursor and the cursor of a message nested in it
InitNested == InitWith(NestedBuffers, Builds)

NextNested == Next \/ CallMessageKeep

SpecNested == InitNested /\ [][NextNested]_vars

InitSkip == InitWith(SkipBuffers, Builds)

SpecSkip == InitSkip /\ [][NextSkip]_vars

---------------------------------------------------------------------------
(* The wire format, as the claims state it *)

MaxVarintBytes == 10

\* the byte at offset p of the buffer
ByteAt(p) == buf[p + 1]

\* the length of the well-formed varint that starts at p in [p, e): its
\* last byte is the first one with the high bit clear; 0 when there is none
VarintLength(p, e) ==
    LET ks == {k \in 1..MaxVarintBytes :
                 /\ p >= 0 /\ p + k <= e /\ p + k <= Len(buf)
                 /\ ByteAt(p + k - 1) < 128
                 /\ \A i \in 0..(k - 2) : ByteAt(p + i) >= 128}
    IN  IF ks = {} THEN 0 ELSE CHOOSE k \in ks : TRUE

\* the value of the k-byte varint at p: group i holds bits 7i .. 7i + 6
VarintValue(p, k) ==
    UNION {{7 * i + j : j \in ByteBits(ByteAt(p + i)) \cap 0..6} :
             i \in 0..(k - 1)}

\* zigzag(s) = (s << 1) XOR (s >> width - 1), s a signed integer of T
ZigZag(T, s) ==
    Xor({i + 1 : i \in s} \cap (0..(Width(T) - 1)),
        IF (Width(T) - 1) \in s THEN 0..(Width(T) - 1) ELSE {})

\* the low 32 bits of a value: what the key becomes in the uint32_t value
Low32(v) == v \cap 0..31

\* the size of the well-formed value of wire type wt at q in [q, e):
\* a varint, 8 bytes, a length varint and that many bytes, or 4 bytes;
\* -1 when the value is cut short or the wire type is none of these
ValueSize(wt, q, e) ==
    LET k == VarintLength(q, e)
        len == VarintValue(q, k)
    IN  IF wt = 0 THEN (IF k > 0 THEN k ELSE -1)
        ELSE IF wt = 1 THEN (IF q >= 0 /\ q + 8 <= e THEN 8 ELSE -1)
        ELSE IF wt = 5 THEN (IF q >= 0 /\ q + 4 <= e THEN 4 ELSE -1)
        ELSE IF wt = 2
        THEN (IF k > 0 /\ len \subseteq 0..15 /\ BitsNat(len) <= e - (q + k)
              THEN k + BitsNat(len) ELSE -1)
        ELSE -1

\* the key of the field at p: its length in bytes and its value
KeyLength(p, e) == VarintLength(p, e)

KeyValue(p, e) == VarintValue(p, KeyLength(p, e))

\* the offset after the well-formed field at p in [p, e), or -1
FieldEnd(p, e) ==
    LET k == KeyLength(p, e)
        n == ValueSize(BitsNat(KeyValue(p, e) \cap 0..2), p + k, e)
    IN  IF k > 0 /\ n >= 0 THEN p + k + n ELSE -1

\* [p, e) is a sequence of well-formed fields
RECURSIVE WellFormed(_, _)
WellFormed(p, e) ==
    \/ p = e
    \/ p < e /\ FieldEnd(p, e) > p /\ WellFormed(FieldEnd(p, e), e)

\* the first field of the well-formed [p, e) whose tag is t: found, and
\* the offset after its key; or not found, and e
RECURSIVE FirstField(_, _, _)
FirstField(p, e, t) ==
    IF p >= e THEN [found |-> FALSE, data |-> e]
    ELSE IF ShiftRight3(Low32(KeyValue(p, e))) = t
    THEN [found |-> TRUE, data |-> p + KeyLength(p, e)]
    ELSE FirstField(FieldEnd(p, e), e, t)

\* the assert of varint() lets the call through
VarintAllowed(cu) ==
    build.ndebug \/ is_wire_type(cu, 0) \/ is_wire_type(cu, 2)

---------------------------------------------------------------------------
(* The claims *)

\* C1: no call reads a byte outside the range of its cursor: every offset
\* p it dereferences satisfies start <= p < end (the root starts at 0);
\* boolean() with data = end does not read the byte at end.
C1_ReadsInRange ==
    (last.op # "none" /\ last.cid = 1) =>
        \A p \in last.out.reads : 0 <= p /\ p < last.pre.end

\* C2: data <= end in every cursor, the root and the cursor message()
\* returns, after every call, failed or not.
C2_DataWithinEnd ==
    /\ \A c \in CursorIds : cur[c].live => cur[c].data <= cur[c].end
    /\ last.out.rcur.live => last.out.rcur.data <= last.out.rcur.end

\* C3: next() with data < end and a well-formed key varint at data returns
\* true, sets value to the key, tag to key >> 3 (and wire_type() to
\* key & 7) and moves data by the length of the key, whatever the wire
\* type of the field before.
C3_NextAfterAnyField ==
    (/\ last.op = "next"
     /\ wire_type(last.pre) \in {0, 1, 2, 5}
     /\ last.pre.data < last.pre.end
     /\ KeyLength(last.pre.data, last.pre.end) > 0) =>
        /\ last.out.err = "ok"
        /\ last.out.rbool
        /\ last.out.c.value = Low32(KeyValue(last.pre.data, last.pre.end))
        /\ last.out.c.tag = ShiftRight3(last.out.c.value)
        /\ last.out.c.data =
               last.pre.data + KeyLength(last.pre.data, last.pre.end)

\* C4: over a sequence of well-formed fields of wire types 0, 1, 2 and 5,
\* next(t) returns true with tag = t and data after the key of the first
\* field of tag t, or, there being none, false with data = end.
C4_FilteredNext ==
    (/\ last.op = "next_tag"
     /\ last.pre.data >= 0
     /\ WellFormed(last.pre.data, last.pre.end)) =>
        LET f == FirstField(last.pre.data, last.pre.end, last.arg)
        IN  /\ last.out.err = "ok"
            /\ last.out.rbool = f.found
            /\ last.out.c.data = f.data
            /\ f.found => last.out.c.tag = last.arg

\* C9: skip() consumes exactly the value of the field last advanced to,
\* where that value is well-formed: one varint for wire type 0, 8 bytes
\* for 1, 4 bytes for 5, the length varint and the length it encodes for
\* 2; it changes nothing but data, which it leaves at the key of the next
\* field or at end.
C9_SkipConsumesValue ==
    (/\ last.op = "skip"
     /\ ValueSize(wire_type(last.pre), last.pre.data, last.pre.end) >= 0) =>
        /\ last.out.err = "ok"
        /\ last.out.c =
             [last.pre EXCEPT !.data = last.pre.data +
                ValueSize(wire_type(last.pre), last.pre.data, last.pre.end)]

\* a length-delimited field with a payload, skipped after next()
C9_Witness ==
    /\ last.op = "skip"
    /\ wire_type(last.pre) = 2
    /\ last.pre.tag = NatBits(5)
    /\ last.out.err = "ok"
    /\ last.out.c.data = last.pre.data + 3

\* C10: skip() on a field of wire type 3, 4, 6 or 7 fails with
\* UnknownFieldType and leaves the cursor as it was.
C10_SkipUnknownType ==
    (last.op = "skip" /\ wire_type(last.pre) \notin {0, 1, 2, 5}) =>
        /\ last.out.err = "UnknownFieldType"
        /\ last.out.c = last.pre
        /\ last.out.reads = {}

\* the field of tag 1 and wire type 3, skipped after next()
C10_Witness ==
    /\ last.op = "skip"
    /\ wire_type(last.pre) = 3
    /\ last.pre.tag = NatBits(1)
    /\ last.pre.data < last.pre.end
    /\ last.out.err = "UnknownFieldType"

\* C5: varint<T>() on a well-formed k-byte varint (1 <= k <= 10) whose
\* value v fits in T returns exactly v and leaves data k bytes further,
\* one byte past the terminating byte; over <<0x08, 0x96, 0x01>>, next()
\* then varint<uint32_t>() gives tag 1, wire type 0, 150 and an exhausted
\* cursor.  (The call is one the assert of varint lets through.)
C5_VarintExact ==
    (last.op = "varint" /\ VarintAllowed(last.pre)) =>
        LET k == VarintLength(last.pre.data, last.pre.end)
            v == VarintValue(last.pre.data, k)
        IN  /\ (k > 0 /\ v \subseteq 0..(Width(last.ty) - 1)) =>
                  /\ last.out.err = "ok"
                  /\ last.out.rbits = v
                  /\ last.out.c.data = last.pre.data + k
            /\ (buf = <<8, 150, 1>> /\ last.pre.data = 1
                  /\ last.pre.value = NatBits(8)) =>
                  /\ last.pre.tag = NatBits(1)
                  /\ wire_type(last.pre) = 0
                  /\ last.out.rbits = NatBits(150)
                  /\ ~operator_bool(last.out.c)

\* a ten-byte varint decoded as a uint64_t, bit 63 set
C5_Witness ==
    /\ last.op = "varint"
    /\ last.ty = "uint64_t"
    /\ VarintLength(last.pre.data, last.pre.end) = 10
    /\ last.out.err = "ok"
    /\ 63 \in last.out.rbits
    /\ last.out.c.data = last.pre.data + 10

\* C6: svarint<T>(), T signed, applied to the varint of zigzag(s) returns
\* s, for every s of the width of T: the zigzag of what it returns is the
\* value it decoded.
C6_ZigZagRoundTrip ==
    (last.op = "svarint" /\ VarintAllowed(last.pre)) =>
        LET k == VarintLength(last.pre.data, last.pre.end)
            v == VarintValue(last.pre.data, k)
        IN  (k > 0 /\ v \subseteq 0..(Width(last.ty) - 1)) =>
                /\ last.out.err = "ok"
                /\ ZigZag(last.ty, last.out.rbits) = v

\* C7: with fewer than 10 bytes from data to end, each with the high bit
\* set (or none at all), varint() fails with UnterminatedVarint and reads
\* no byte at or beyond end.
C7_TruncatedVarint ==
    (/\ last.op = "varint"
     /\ VarintAllowed(last.pre)
     /\ last.pre.end - last.pre.data < MaxVarintBytes
     /\ \A p \in last.pre.data..(last.pre.end - 1) : ByteAt(p) >= 128) =>
        /\ last.out.err = "UnterminatedVarint"
        /\ last.out.reads \subseteq last.pre.data..(last.pre.end - 1)

\* nine continuation bytes, then the end of the buffer
C7_Witness ==
    /\ last.op = "varint"
    /\ last.pre.end - last.pre.data = 9
    /\ \A p \in last.pre.data..(last.pre.end - 1) : ByteAt(p) >= 128
    /\ last.out.err = "UnterminatedVarint"
    /\ Cardinality(last.out.reads) = 9

\* C8: with the 10 bytes at data inside the buffer and the continuation bit
\* set in all of them, varint() fails with VarintTooLong having consumed at
\* most 10 bytes; with it clear in the tenth only, the varint is accepted.
C8_OverLongVarint ==
    (/\ last.op = "varint"
     /\ VarintAllowed(last.pre)
     /\ last.pre.data + MaxVarintBytes <= last.pre.end
     /\ \A i \in 0..(MaxVarintBytes - 2) :
            ByteAt(last.pre.data + i) >= 128) =>
        IF ByteAt(last.pre.data + MaxVarintBytes - 1) >= 128
        THEN /\ last.out.err = "VarintTooLong"
             /\ last.out.c.data <= last.pre.data + MaxVarintBytes
             /\ last.out.c.data >= last.pre.data
        ELSE /\ last.out.err = "ok"
             /\ last.out.c.data = last.pre.data + MaxVarintBytes

\* ten continuation bytes and an eleventh byte that is not read
C8_Witness ==
    /\ last.op = "varint"
    /\ last.pre.data + MaxVarintBytes < last.pre.end
    /\ \A i \in 0..(MaxVarintBytes - 1) : ByteAt(last.pre.data + i) >= 128
    /\ last.out.err = "VarintTooLong"
    /\ last.out.c.data = last.pre.data + MaxVarintBytes

\* C11: skipBytes(n) with n <= end - data moves data by exactly n, and
\* otherwise fails with EndOfBuffer leaving data where it was; fixed(),
\* float32() and float64() of width w with fewer than w bytes left fail
\* with EndOfBuffer without moving and without reading, and otherwise
\* return the w bytes at [pos, pos + w) and move data by exactly w.  (The
\* calls are ones the asserts let through, on a cursor with
\* 0 <= data <= end.)
C11_SkipBytesExact ==
    LET pre == last.pre
        out == last.out
        InBuffer == 0 <= pre.data /\ pre.data <= pre.end
        Fails == /\ out.err = "EndOfBuffer"
                 /\ out.c = pre
                 /\ out.reads = {}
        Width11 == IF last.op = "float32" THEN 4
                   ELSE IF last.op = "float64" THEN 8
                   ELSE BitsNat(last.arg)
    IN  /\ (last.op = "skipBytes" /\ InBuffer) =>
              IF ~(31 \in last.arg) /\ BitsNat(last.arg) <= pre.end - pre.data
              THEN /\ out.err = "ok"
                   /\ out.c = [pre EXCEPT !.data = pre.data + BitsNat(last.arg)]
              ELSE Fails
        /\ (/\ last.op \in {"fixed", "float32", "float64"}
            /\ InBuffer
            /\ out.err # "AssertionFailed") =>
              IF Width11 <= pre.end - pre.data
              THEN /\ out.err = "ok"
                   /\ out.c = [pre EXCEPT !.data = pre.data + Width11]
                   /\ out.rbytes = [i \in 1..Width11 |-> ByteAt(pre.data + i - 1)]
              ELSE Fails

\* one call changes one cursor: a live cursor that changed is the one the
\* call was made on
C12_OneCursorPerCall ==
    \A c \in CursorIds :
        (cur[c].live /\ cur'[c] # cur[c]) =>
            (last'.op # "none" /\ last'.cid = c)

\* message() on a field of wire type 2 with a well-formed length L and L
\* bytes left after it at pos
C12_MessageReturned ==
    (/\ last.op = "message"
     /\ wire_type(last.pre) = 2
     /\ ValueSize(2, last.pre.data, last.pre.end) >= 0) =>
        LET k == VarintLength(last.pre.data, last.pre.end)
            pos == last.pre.data + k
            L == BitsNat(VarintValue(last.pre.data, k))
        IN  /\ last.out.err = "ok"
            /\ last.out.rcur = [live |-> TRUE, data |-> pos, end |-> pos + L,
                                value |-> {}, tag |-> {}]
            /\ last.out.c = [last.pre EXCEPT !.data = pos + L]

\* C12: message() on a field of wire type 2 whose length varint decodes to
\* L, with L bytes left at pos after it, returns a cursor with data = pos,
\* end = pos + L and no field decoded, and sets the data of the parent to
\* pos + L; afterwards no call on the nested cursor, failing or not,
\* changes the parent, and no call on the parent changes the nested one.
C12_NestedMessage == []C12_MessageReturned /\ [][C12_OneCursorPerCall]_vars

\* a field read through the nested cursor, the parent staying at pos + L
C12_Witness ==
    /\ cur[2].live
    /\ last.op = "next"
    /\ last.cid = 2
    /\ last.out.rbool
    /\ last.pre.data < last.out.c.data
    /\ cur[1].data = cur[2].end
    /\ cur[1].tag # cur[2].tag

\* C13: boolean() on a field of wire type 0 with a byte at data: if the
\* byte has the bit 0x80 set (the varint has more than one byte) the call
\* is refused and consumes nothing; otherwise it moves data by exactly 1
\* and returns true iff the byte is not zero.
C13_BooleanOneByte ==
    (/\ last.op = "boolean"
     /\ wire_type(last.pre) = 0
     /\ 0 <= last.pre.data /\ last.pre.data < last.pre.end) =>
        IF ByteAt(last.pre.data) >= 128
        THEN /\ last.out.err # "ok"
             /\ last.out.c = last.pre
        ELSE /\ last.out.err = "ok"
             /\ last.out.c = [last.pre EXCEPT !.data = last.pre.data + 1]
             /\ last.out.rbool = (ByteAt(last.pre.data) # 0)

\* C14: every call ends: varint() makes at most 10 iterations of its
\* loop, and next(tag) returns or raises after at most end - data
\* iterations of its loop.  (The call starts with 0 <= data <= end.)
C14_Terminates ==
    (last.op # "none" /\ 0 <= last.pre.data /\ last.pre.data <= last.pre.end) =>
        /\ last.out.err # "Diverges"
        /\ last.op \in {"varint", "svarint", "next"} =>
              last.out.iters <= MaxVarintBytes
        /\ last.op = "next_tag" =>
              last.out.iters <= last.pre.end - last.pre.data

\* C15: after next() or next(tag) has returned true, wire_type() is one
\* of 0, 1, 2, 5: a key whose low 3 bits are 3 or 4 makes the advance
\* fail.
C15_WireTypeSupported ==
    (/\ last.op \in {"next", "next_tag"}
     /\ last.out.err = "ok"
     /\ last.out.rbool) =>
        wire_type(last.out.c) \in {0, 1, 2, 5}

\* C16: string(), message() and skip() on a field of wire type 2 whose
\* well-formed length varint (of up to 10 bytes) encodes a length L, taken
\* in full, larger than the number of bytes left after the varint, fail
\* with EndOfBuffer: no such field is accepted with its length truncated.
C16_LengthNotTruncated ==
    (/\ last.op \in {"string", "message", "skip"}
     /\ wire_type(last.pre) = 2
     /\ 0 <= last.pre.data /\ last.pre.data <= last.pre.end
     /\ VarintLength(last.pre.data, last.pre.end) > 0) =>
        LET k == VarintLength(last.pre.data, last.pre.end)
            L == VarintValue(last.pre.data, k)
            left == last.pre.end - (last.pre.data + k)
        IN  ((L \cap (31..70)) # {} \/ BitsNat(L) > left) =>
                last.out.err = "EndOfBuffer"

\* C17: varint<T>() on a well-formed varint of k <= 10 bytes whose value
\* v has bits at or beyond the width w of T returns exactly v mod 2^w:
\* the groups shifted to positions >= w add nothing to the result and
\* leave its low w bits alone.
C17_WidthTruncation ==
    (last.op = "varint" /\ VarintAllowed(last.pre)) =>
        LET k == VarintLength(last.pre.data, last.pre.end)
            v == VarintValue(last.pre.data, k)
            w == Width(last.ty)
        IN  (k > 0 /\ ~(v \subseteq 0..(w - 1))) =>
                /\ last.out.err = "ok"
                /\ last.out.rbits = v \cap 0..(w - 1)
                /\ last.out.c.data = last.pre.data + k

\* C18: no call on a cursor decreases data or changes end; only next()
\* and next(tag) change the last key and the tag: varint, svarint, fixed,
\* string, boolean, message, skip and skipBytes change nothing but data.
C18_ForwardOnly ==
    (last.op # "none") =>
        /\ last.out.c.data >= last.pre.data
        /\ last.out.c.end = last.pre.end
        /\ last.op \notin {"next", "next_tag"} =>
              /\ last.out.c.value = last.pre.value
              /\ last.out.c.tag = last.pre.tag

\* C19: the conversion to bool is true iff data < end; next() returns
\* false, without an error, exactly when the conversion is false at the
\* call, and then leaves data, end, the key and the tag as they were; a
\* cursor made with length 0 converts to false and its first next()
\* returns false.
C19_EndOfMessage ==
    /\ last.op = "bool" =>
          /\ last.out.rbool = (last.pre.data < last.pre.end)
          /\ last.out.err = "ok"
          /\ last.out.c = last.pre
    /\ last.op = "next" =>
          /\ (last.out.err = "ok" /\ ~last.out.rbool) = ~operator_bool(last.pre)
          /\ ~operator_bool(last.pre) => last.out.c = last.pre
    /\ (last.op \in {"bool", "next"} /\ last.cid = 1 /\ Len(buf) = 0) =>
          (last.out.err = "ok" /\ ~last.out.rbool)

\* next() at the end of a buffer whose field has been read: false
C19_Witness ==
    /\ last.op = "next"
    /\ last.pre.data = last.pre.end
    /\ last.pre.tag # {}
    /\ last.out.err = "ok"
    /\ ~last.out.rbool
    /\ last.out.c = last.pre

===========================================================================
